---------------------------- MODULE Spec2Model ----------------------------
(***************************************************************************)
(* build_coast: a two pass converter of shape files into a bit packed      *)
(* coastline file ordered by one-degree cells.                             *)
(*                                                                         *)
(* Pass 1 (ingestion) splits every shape's vertices into per-cell segments *)
(* and appends them to per-cell staging files "cell_LON_LAT".  Pass 2      *)
(* (encoding) drains the staging files in row-major cell order, packs      *)
(* each segment into a block and patches the cell's header entry.          *)
(*                                                                         *)
(* Raw coordinates (the doubles padfX, padfY) are modelled in fixed point: *)
(* an integer number of millionths of a degree, ten times finer than the   *)
(* 1/100000 degree resolution of the stored integer vertices, so that the  *)
(* rounding done by NINT is visible.                                       *)
(***************************************************************************)
EXTENDS Integers, Sequences, FiniteSets, TLC

(***************************************************************************)
(* Bounds of the model.                                                    *)
(***************************************************************************)
MaxSources == 2
MaxShapes == 2
MaxVerts == 4

(***************************************************************************)
(* Program constants.                                                      *)
(***************************************************************************)
Scale == 100000
Micro == Scale * 10
NumLat == 180
NumLon == 360
VersionLen == 128
EntrySize == 3 * 4
BiasBits == 18
LonBits == 26
LatBits == 25
WidthBits == 5
NoCell == -999
NewSource == -888
DiffInit == 99999999

(***************************************************************************)
(* The raw input points (X, Y) of the model, in millionths of a degree.    *)
(*   PA1, PA2  two points of cell lon 190 / lat 100, 0.5 degree apart      *)
(*   PC        a point of cell lon 189 / lat 101, near PA1                 *)
(*   PS        a point at longitude +180 exactly (the 360.0 seam)          *)
(*   PR        a point at longitude 179.999996                             *)
(*   PN        a point at latitude +90 exactly                             *)
(***************************************************************************)
PA1 == <<10200000, 10500000>>
PA2 == <<10700000, 10500000>>
PC == <<9900000, 11200000>>
PS == <<180000000, 10500000>>
PR == <<179999996, 10500000>>
PN == <<10200000, 90000000>>
Points == {PA1, PA2, PC, PS, PR, PN}

(***************************************************************************)
(* A shape as read by SHPReadObject: nVertices, nParts and, when there are *)
(* two parts, panPartStart[1] (panPartStart[0] is never read).             *)
(***************************************************************************)
Shapes ==
    { [nVertices |-> n, nParts |-> np, partStart |-> s] :
        n \in 1..3, np \in 0..1, s \in {0} }
    \cup
    { [nVertices |-> 2, nParts |-> 2, partStart |-> 1] }
    \cup
    { [nVertices |-> 3, nParts |-> 2, partStart |-> s] : s \in 1..2 }

VARIABLES
    pc,            \* position of main
    m,             \* number of input sources opened so far
    shape,         \* the shape being read
    j,             \* vertex index within the shape
    numParts,      \* index of the next part start
    londeg0, latdeg0, lon0, lat0,   \* londeg[0], latdeg[0], lon[0], lat[0]
    segCount, segx, segy,           \* the in-progress segment
    fp,            \* the open staging file, or "NULL"
    store,         \* the staging files: file key -> sequence of int32
    total,
    nshapes,       \* number of shapes read (bounds the model)
    inVerts,       \* vertices of the shapes with nVertices >= 2 read so far
    crossings,     \* vertices that were no segment start and changed cell
    opened,        \* the staging files that are open (FILE streams not closed)
    i,             \* pass 2: latitude index of the cell
    address, offset, num_segments, num_vertices,
    rpos,          \* read position (1-based) in the staging file open for reading
    opos, osize,   \* the output file: cursor and length in bytes
    head,          \* the output file: header slot offset -> the entry patched there
    blocks,        \* the output file: the blocks written, in the order written
    err            \* the fatal error that ended the run, or "none"

p1vars == <<pc, m, shape, j, numParts, londeg0, latdeg0, lon0, lat0,
            segCount, segx, segy, fp, store, total, nshapes, inVerts, crossings,
            opened>>

p2vars == <<i, address, offset, num_segments, num_vertices, rpos, opos, osize,
            head, blocks, err>>

vars == <<p1vars, p2vars>>

-----------------------------------------------------------------------------
(***************************************************************************)
(* Helpers of pass 1.                                                      *)
(***************************************************************************)

\* (int32_t) of a double: truncation toward zero.  a is in 1/den units.
Trunc(a, den) == IF a < 0 THEN -((-a) \div den) ELSE a \div den

\* NINT (a * 100000.0) for a in millionths of a degree.
NINT(a) ==
    LET sub == Micro \div Scale
    IN  IF a < 0 THEN -((2 * (-a) + sub) \div (2 * sub))
                 ELSE (2 * a + sub) \div (2 * sub)

\* lon[1] after the bias by 180 and the boundary clamp (lines 244-260).
NormLon(X) ==
    LET l == X + 180 * Micro
    IN  IF l = 360 * Micro THEN 180 * Micro ELSE l

\* lat[1] after the bias by 90 (line 245).
NormLat(Y) == Y + 90 * Micro

\* The name of a staging file, "cell_%03d_%03d" of londeg, latdeg.
CellFile(londeg, latdeg) == <<londeg, latdeg>>

\* The int32 words written for a segment: the count, then count x/y pairs.
Record(cnt, xs, ys) ==
    <<cnt>> \o [k \in 1..(2 * cnt) |->
                  IF k % 2 = 1 THEN xs[(k + 1) \div 2] ELSE ys[k \div 2]]

\* fopen (fname, "ab"): the file is created when it does not exist.
FOpenAppend(st, f) == IF f \in DOMAIN st THEN st ELSE st @@ (f :> <<>>)

\* FClose with the stream left open.
FCloseNothing(op, f) == op

\* fclose (fp) and fopen: the open staging streams op without, with f.
FClose(op, f) == op \ {f}
FOpen(op, f) == op \cup {f}

\* fwrite of words to the open file f.
FWrite(st, f, words) == [st EXCEPT ![f] = @ \o words]

\* Changed with the longitude index left out of the comparison.
ChangedLatOnly(latdeg1, londeg1, la0, lo0) ==
    la0 > NoCell /\ latdeg1 # la0

\* The test of line 270: the cell changed, and this is not the first vertex.
Changed(latdeg1, londeg1, la0, lo0) ==
    la0 > NoCell /\ (latdeg1 # la0 \/ londeg1 # lo0)

\* ClosingRecord without the last point added to the closed segment.
ClosingRecordNoLast(crossing, cnt, xs, ys, lastx, lasty) ==
    Record(cnt, xs, ys)

\* ClosingRecord with the count written after it was reset to 0, when the
\* cell did not change inside a segment.
ClosingRecordAfterReset(crossing, cnt, xs, ys, lastx, lasty) ==
    IF crossing
       THEN Record(cnt + 1, SubSeq(xs, 1, cnt) \o <<lastx>>,
                   SubSeq(ys, 1, cnt) \o <<lasty>>)
       ELSE Record(0, xs, ys)

\* The record that closes the in-progress segment: lines 278-284, 377-383,
\* 437-443 (the segment as it is) and, when the cell changed inside a
\* segment, lines 303-316 (the segment and the last point once more).
ClosingRecord(crossing, cnt, xs, ys, lastx, lasty) ==
    IF crossing
       THEN Record(cnt + 1, SubSeq(xs, 1, cnt) \o <<lastx>>,
                   SubSeq(ys, 1, cnt) \o <<lasty>>)
       ELSE Record(cnt, xs, ys)

-----------------------------------------------------------------------------
Init ==
    /\ pc = "source"
    /\ m = 0
    /\ shape = [nVertices |-> 0, nParts |-> 0, partStart |-> 0]
    /\ j = 0
    /\ numParts = 1
    /\ londeg0 = NoCell
    /\ latdeg0 = NoCell
    /\ lon0 = NoCell * Micro
    /\ lat0 = NoCell * Micro
    /\ segCount = 0
    /\ segx = <<>>
    /\ segy = <<>>
    /\ fp = "NULL"
    /\ store = <<>>
    /\ total = 0
    /\ nshapes = 0
    /\ inVerts = 0
    /\ crossings = 0
    /\ opened = {}
    /\ i = 0
    /\ address = 0
    /\ offset = 0
    /\ num_segments = 0
    /\ num_vertices = 0
    /\ rpos = 0
    /\ opos = 0
    /\ osize = 0
    /\ head = <<>>
    /\ blocks = <<>>
    /\ err = "none"

\* MoreSources with the loop over the sources entered again after the
\* output file was opened.
MoreSourcesAfterHeader(p, mm) == p \in {"source", "cells"} /\ mm < MaxSources

\* The loop of line 181 goes on to another input source: main is between
\* two sources and another one is given on the command line.
MoreSources(p, mm) == p = "source" /\ mm < MaxSources

\* Lines 181-207: the next input source is opened.
OpenSource ==
    /\ MoreSources(pc, m)
    /\ m' = m + 1
    /\ segCount' = 0
    /\ pc' = "shapes"
    /\ UNCHANGED <<shape, j, numParts, londeg0, latdeg0, lon0, lat0, segx, segy, fp, store,
                   total, nshapes, inVerts, crossings, opened, p2vars>>

\* HasVertices with a shape of one vertex taken too.
HasVerticesFromOne(s) == s.nVertices >= 1

\* The test of line 221: the vertices of the shape are processed.
HasVertices(s) == s.nVertices >= 2

\* Lines 212-223: a shape is read; one with fewer than 2 vertices is skipped.
ReadShape(s) ==
    /\ pc = "shapes"
    /\ nshapes < MaxShapes
    /\ inVerts + (IF s.nVertices >= 2 THEN s.nVertices ELSE 0) <= MaxVerts
    /\ nshapes' = nshapes + 1
    /\ total' = total + s.nVertices
    /\ shape' = s
    /\ IF HasVertices(s)
          THEN /\ pc' = "vertex"
               /\ j' = 0
               /\ numParts' = 1
               /\ inVerts' = inVerts + s.nVertices
          ELSE /\ pc' = "shapes"
               /\ UNCHANGED <<j, numParts, inVerts>>
    /\ UNCHANGED <<m, londeg0, latdeg0, lon0, lat0, segCount, segx, segy, fp,
                   store, crossings, opened, p2vars>>

\* The test of line 235: vertex jj is the start of the next part ("ring").
Ring(jj, np, s) == np < s.nParts /\ s.partStart = jj

\* StartSegment without the test for the start of a part.
StartSegmentFirstOnly(jj, np, s) == jj = 0 /\ s.nParts > 0

\* start_segment after lines 225-239.
StartSegment(jj, np, s) == (jj = 0 /\ s.nParts > 0) \/ Ring(jj, np, s)

\* Lines 225-417: one vertex (X, Y) of the shape.
Vertex(X, Y) ==
    /\ pc = "vertex"
    /\ UNCHANGED p2vars
    /\ LET ring == Ring(j, numParts, shape)
           start_segment == StartSegment(j, numParts, shape)
           lon1 == NormLon(X)
           lat1 == NormLat(Y)
           londeg1 == Trunc(lon1, Micro)
           latdeg1 == Trunc(lat1, Micro)
           changed == Changed(latdeg1, londeg1, latdeg0, londeg0)
           first == latdeg0 = NoCell
           new == CellFile(londeg1, latdeg1)
           writes == changed \/ (start_segment /\ ~first)
           lastx == NINT(lon0)
           lasty == NINT(lat0)
           \* the record that closes the in-progress segment
           closing == ClosingRecord(changed /\ ~start_segment, segCount, segx, segy,
                                    lastx, lasty)
           written == IF writes THEN FWrite(store, fp, closing) ELSE store
           opens == changed \/ (start_segment /\ first)
           \* the segment before the current point is added
           bx == IF changed /\ ~start_segment THEN <<lastx>>
                 ELSE IF writes THEN <<>> ELSE SubSeq(segx, 1, segCount)
           by == IF changed /\ ~start_segment THEN <<lasty>>
                 ELSE IF writes THEN <<>> ELSE SubSeq(segy, 1, segCount)
       IN  IF writes /\ fp = "NULL"
              THEN \* fwrite on a NULL stream
                   /\ pc' = "crashed"
                   /\ UNCHANGED <<m, shape, j, numParts, londeg0, latdeg0, lon0, lat0,
                                  segCount, segx, segy, fp, store, total, nshapes,
                                  inVerts, crossings, opened>>
              ELSE /\ store' = IF opens THEN FOpenAppend(written, new) ELSE written
                   /\ fp' = IF opens THEN new ELSE fp
                   /\ opened' = IF changed THEN FOpen(FClose(opened, fp), new)
                                 ELSE IF opens THEN FOpen(opened, new)
                                 ELSE opened
                   /\ segx' = bx \o <<NINT(lon1)>>
                   /\ segy' = by \o <<NINT(lat1)>>
                   /\ segCount' = Len(bx) + 1
                   /\ londeg0' = londeg1
                   /\ latdeg0' = latdeg1
                   /\ lon0' = lon1
                   /\ lat0' = lat1
                   /\ numParts' = IF ring THEN numParts + 1 ELSE numParts
                   /\ j' = j + 1
                   /\ pc' = IF j + 1 < shape.nVertices THEN "vertex" ELSE "shapes"
                   /\ crossings' = IF changed /\ ~start_segment
                                      THEN crossings + 1 ELSE crossings
                   /\ UNCHANGED <<m, shape, total, nshapes, inVerts>>

\* Lines 435-456: the end of an input source.
CloseSource ==
    /\ pc = "shapes"
    /\ IF fp = "NULL"
          THEN /\ pc' = "crashed"
               /\ UNCHANGED <<store, latdeg0>>
          ELSE /\ store' = FWrite(store, fp,
                                   ClosingRecord(FALSE, segCount, segx, segy, 0, 0))
               /\ latdeg0' = NewSource
               /\ pc' = "source"
    /\ UNCHANGED <<m, shape, j, numParts, londeg0, lon0, lat0, segCount, segx, segy,
                   fp, total, nshapes, inVerts, crossings, opened, p2vars>>

-----------------------------------------------------------------------------
(***************************************************************************)
(* Helpers of pass 2.                                                      *)
(***************************************************************************)

\* 2 to the power e.
Pow2(e) == 2 ^ e

\* max_bias = (int32_t) (pow (2.0, 17.0) - 1.0), line 518.
max_bias == Pow2(17) - 1

MIN(a, b) == IF a < b THEN a ELSE b
MAX(a, b) == IF a > b THEN a ELSE b

\* The smallest integers n with n * n >= 2^(2k+1), for k = 0, 1, ...: the
\* values at which log2 (n) passes k + 1/2.
HalfPowers ==
    <<2, 3, 6, 12, 23, 46, 91, 182, 363, 725, 1449, 2897, 5793, 11586, 23171,
      46341, 92682, 185364, 370728, 741456, 1482911, 2965821, 5931642,
      11863284, 23726567, 47453133, 94906266>>

\* Width without the added 1.0.
WidthNoPlusOne(n) == Cardinality({k \in 1..Len(HalfPowers) : n >= HalfPowers[k]})

\* NINT (log10 ((double) n) / log10 (2.0) + 1.0), lines 618-620: log2 (n)
\* rounded to the nearest integer, plus one.
Width(n) == 1 + Cardinality({k \in 1..Len(HalfPowers) : n >= HalfPowers[k]})

\* diff[0] and diff[1] after the loop of lines 565-588 over the values v.
RECURSIVE DiffMin(_, _)
DiffMin(v, k) ==
    IF k <= 1 THEN DiffInit ELSE MIN(v[k] - v[k - 1], DiffMin(v, k - 1))

RECURSIVE DiffMax(_, _)
DiffMax(v, k) ==
    IF k <= 1 THEN -DiffInit ELSE MAX(v[k] - v[k - 1], DiffMax(v, k - 1))

\* bit_pack (buffer, start, numbits, value): the low numbits bits of value,
\* most significant first, at bit offset start (bit k of the buffer is
\* element k + 1).
BitPack(buffer, start, numbits, value) ==
    SubSeq(buffer, 1, start)
      \o [k \in 1..numbits |-> (value \div Pow2(numbits - k)) % 2]
      \o SubSeq(buffer, start + numbits + 1, Len(buffer))

\* The offsets packed in the loop of lines 647-654 for vertices k..cnt.
RECURSIVE PackOffsets(_, _, _, _, _, _, _, _, _)
PackOffsets(buffer, pos, xs, ys, k, bias_x, bias_y, lon_bits, lat_bits) ==
    IF k > Len(xs) THEN buffer
    ELSE LET xoff == (xs[k] - xs[k - 1]) + bias_x
             yoff == (ys[k] - ys[k - 1]) + bias_y
             b1 == BitPack(buffer, pos, lon_bits, xoff)
             b2 == BitPack(b1, pos + lon_bits, lat_bits, yoff)
         IN  PackOffsets(b2, pos + lon_bits + lat_bits, xs, ys, k + 1,
                         bias_x, bias_y, lon_bits, lat_bits)

\* bias_x, bias_y of a segment, lines 591-592.
BiasOf(v) == -DiffMin(v, Len(v))

\* OutOfRange with the upper test alone.
OutOfRangeUpperOnly(bias) == bias > max_bias

\* The range tests of lines 594 and 602.
OutOfRange(bias) == bias > max_bias \/ bias < -max_bias

\* Appended with the block written before the range tests.
AppendedAlways(bl, aborting, blk) == Append(bl, blk)

\* The blocks of the output file after a segment was handled: exit at lines
\* 598 and 606 comes before the fwrite of line 656.
Appended(bl, aborting, blk) == IF aborting THEN bl ELSE Append(bl, blk)

\* range_x, range_y of a segment, lines 610-615.
RangeOf(v) ==
    LET r == DiffMax(v, Len(v)) - DiffMin(v, Len(v))
    IN  IF r = 0 THEN 1 ELSE r

\* SizeOf with a second byte added.
SizeOfTwoMore(cnt, count_bits, lon_bits, lat_bits) ==
    (WidthBits + WidthBits + WidthBits + count_bits + lon_bits + lat_bits
       + BiasBits + BiasBits + LonBits + LatBits
       + (cnt - 1) * (lon_bits + lat_bits)) \div 8 + 2

\* size in bytes of the block of a segment, lines 623-626.
SizeOf(cnt, count_bits, lon_bits, lat_bits) ==
    (WidthBits + WidthBits + WidthBits + count_bits + lon_bits + lat_bits
       + BiasBits + BiasBits + LonBits + LatBits
       + (cnt - 1) * (lon_bits + lat_bits)) \div 8 + 1

\* The buffer of a segment after lines 628-654.
PackSegment(xs, ys) ==
    LET cnt == Len(xs)
        bias_x == BiasOf(xs)
        bias_y == BiasOf(ys)
        count_bits == Width(cnt)
        lon_bits == Width(RangeOf(xs))
        lat_bits == Width(RangeOf(ys))
        size == SizeOf(cnt, count_bits, lon_bits, lat_bits)
        b0 == [k \in 1..(8 * size) |-> 0]
        b1 == BitPack(b0, 0, WidthBits, count_bits)
        b2 == BitPack(b1, WidthBits, WidthBits, lon_bits)
        b3 == BitPack(b2, 2 * WidthBits, WidthBits, lat_bits)
        p4 == 3 * WidthBits
        b4 == BitPack(b3, p4, count_bits, cnt)
        p5 == p4 + count_bits
        b5 == BitPack(b4, p5, BiasBits, bias_x + max_bias)
        p6 == p5 + BiasBits
        b6 == BitPack(b5, p6, BiasBits, bias_y + max_bias)
        p7 == p6 + BiasBits
        b7 == BitPack(b6, p7, LonBits, xs[1])
        p8 == p7 + LonBits
        b8 == BitPack(b7, p8, LatBits, ys[1])
        p9 == p8 + LatBits
    IN  PackOffsets(b8, p9, xs, ys, 2, bias_x, bias_y, lon_bits, lat_bits)

\* pos after the loop of lines 647-654 for vertices k..cnt.
RECURSIVE PackOffsetsEnd(_, _, _, _, _)
PackOffsetsEnd(pos, k, cnt, lon_bits, lat_bits) ==
    IF k > cnt THEN pos
    ELSE PackOffsetsEnd(pos + lon_bits + lat_bits, k + 1, cnt, lon_bits, lat_bits)

\* pos after the packing of a segment, lines 636-654.
PackEnd(xs, ys) ==
    LET cnt == Len(xs)
        count_bits == Width(cnt)
        lon_bits == Width(RangeOf(xs))
        lat_bits == Width(RangeOf(ys))
        p9 == WidthBits + WidthBits + WidthBits + count_bits + BiasBits + BiasBits
                + LonBits + LatBits
    IN  PackOffsetsEnd(p9, 2, cnt, lon_bits, lat_bits)

\* CellIndex with the loops nested the other way round: longitude outside.
CellIndexLonMajor(f) ==
    IF f[1] >= 0 /\ f[1] < NumLon /\ f[2] >= 0 /\ f[2] < NumLat
       THEN f[1] * NumLat + f[2] ELSE -1

\* The index of cell file f in the loops of lines 521-523, or -1 when the
\* loops never form its name.
CellIndex(f) ==
    IF f[1] >= 0 /\ f[1] < NumLon /\ f[2] >= 0 /\ f[2] < NumLat
       THEN f[2] * NumLon + f[1] ELSE -1

\* The offset of the header entry of cell (i, j), lines 500 and 532.
SlotOffset(ii, jj) == (ii * NumLon + jj) * EntrySize + VersionLen

\* The staging files that the loops of lines 521-530 still open, from
\* iteration (ii, jj) on.
Pending(st, ii, jj) ==
    {f \in DOMAIN st : CellIndex(f) >= ii * NumLon + jj}

\* SeekAfterPatch without the seek to the end: the cursor stays behind the
\* patched entry.
SeekStaysAfterPatch(size, pos) == pos

\* The position of the output cursor after the header patch, line 681.
SeekAfterPatch(size, pos) == size

-----------------------------------------------------------------------------
\* Lines 459-518: the staging file is closed, the output file is opened,
\* the version and the zeroed header are written.
WriteHeader ==
    /\ pc = "source"
    /\ m >= 1
    /\ fp # "NULL"
    /\ opened' = FClose(opened, fp)
    /\ fp' = "NULL"
    /\ segx' = <<>>
    /\ segy' = <<>>
    /\ total' = 0
    /\ opos' = SlotOffset(NumLat - 1, NumLon - 1) + EntrySize
    /\ osize' = SlotOffset(NumLat - 1, NumLon - 1) + EntrySize
    /\ head' = <<>>
    /\ blocks' = <<>>
    /\ i' = 0
    /\ j' = 0
    /\ pc' = "cells"
    /\ UNCHANGED <<m, shape, numParts, londeg0, latdeg0, lon0, lat0, segCount,
                   store, nshapes, inVerts, crossings, address, offset,
                   num_segments, num_vertices, rpos, err>>

\* Lines 521-534: the loops advance to the next cell whose staging file
\* exists; the file is opened for reading.
OpenCell ==
    /\ pc = "cells"
    /\ Pending(store, i, j) # {}
    /\ LET f == CHOOSE g \in Pending(store, i, j) :
                   \A h \in Pending(store, i, j) : CellIndex(g) <= CellIndex(h)
       IN  /\ i' = f[2]
           /\ j' = f[1]
           /\ fp' = f
           /\ opened' = FOpen(opened, f)
           /\ offset' = SlotOffset(f[2], f[1])
    /\ address' = opos
    /\ num_segments' = 0
    /\ num_vertices' = 0
    /\ rpos' = 1
    /\ pc' = "records"
    /\ UNCHANGED <<m, shape, numParts, londeg0, latdeg0, lon0, lat0, segCount,
                   segx, segy, store, total, nshapes, inVerts, crossings,
                   opos, osize, head, blocks, err>>

\* EmptyRecord with no record taken as empty.
EmptyRecordNever(cnt) == FALSE

\* The test of line 540: a record of count 0 is passed over.
EmptyRecord(cnt) == cnt = 0

\* Lines 535-662: one record of the staging file is read and, when it is
\* not empty, packed and appended to the output file.
ReadRecord ==
    /\ pc = "records"
    /\ rpos <= Len(store[fp])
    /\ LET data == store[fp]
           cnt == data[rpos]
           xs == [k \in 1..cnt |-> data[rpos + 2 * k - 1]]
           ys == [k \in 1..cnt |-> data[rpos + 2 * k]]
           bias_x == BiasOf(xs)
           bias_y == BiasOf(ys)
           count_bits == Width(cnt)
           lon_offset_bits == Width(RangeOf(xs))
           lat_offset_bits == Width(RangeOf(ys))
           size == SizeOf(cnt, count_bits, lon_offset_bits, lat_offset_bits)
       IN  /\ segCount' = cnt
           /\ IF EmptyRecord(cnt)
                 THEN /\ rpos' = rpos + 1
                      /\ UNCHANGED <<pc, err, num_vertices, num_segments, total,
                                     blocks, opos, osize>>
                 ELSE /\ num_vertices' = num_vertices + cnt
                      /\ num_segments' = num_segments + 1
                      /\ total' = total + cnt
                      /\ rpos' = rpos + 1 + 2 * cnt
                      /\ IF rpos + 2 * cnt > Len(data)
                            THEN /\ pc' = "aborted"
                                 /\ err' = "bad return"
                                 /\ UNCHANGED <<blocks, opos, osize>>
                            ELSE LET aborting == OutOfRange(bias_x) \/ OutOfRange(bias_y)
                                     blk == [off |-> opos, size |-> size,
                                             buffer |-> PackSegment(xs, ys),
                                             pos |-> PackEnd(xs, ys),
                                             cell |-> fp, segx |-> xs, segy |-> ys]
                                 IN  /\ blocks' = Appended(blocks, aborting, blk)
                                     /\ IF aborting
                                           THEN /\ pc' = "aborted"
                                                /\ err' = IF OutOfRange(bias_x)
                                                             THEN "lon bias" ELSE "lat bias"
                                                /\ UNCHANGED <<opos, osize>>
                                           ELSE /\ opos' = opos + size
                                                /\ osize' = MAX(osize, opos + size)
                                                /\ UNCHANGED <<pc, err>>
    /\ UNCHANGED <<m, shape, j, numParts, londeg0, latdeg0, lon0, lat0, segx, segy,
                   fp, store, nshapes, inVerts, crossings, opened, i, address, offset,
                   head>>

\* Lines 664-681: at the end of the staging file it is closed and removed,
\* and the header entry of the cell is patched.
FinishCell ==
    /\ pc = "records"
    /\ rpos > Len(store[fp])
    /\ store' = [f \in DOMAIN store \ {fp} |-> store[f]]
    /\ opened' = FClose(opened, fp)
    /\ fp' = "NULL"
    /\ head' = (offset :> <<address, num_segments, num_vertices>>)
                 @@ head
    /\ osize' = MAX(osize, offset + EntrySize)
    /\ opos' = SeekAfterPatch(MAX(osize, offset + EntrySize), offset + EntrySize)
    /\ IF j + 1 < NumLon
          THEN /\ j' = j + 1
               /\ i' = i
          ELSE /\ j' = 0
               /\ i' = i + 1
    /\ pc' = "cells"
    /\ UNCHANGED <<m, shape, numParts, londeg0, latdeg0, lon0, lat0, segCount,
                   segx, segy, total, nshapes, inVerts, crossings, address, offset,
                   num_segments, num_vertices, rpos, blocks, err>>

\* Lines 695-701: no staging file is left to open; the output is closed.
Finish ==
    /\ pc = "cells"
    /\ Pending(store, i, j) = {}
    /\ i' = NumLat
    /\ j' = 0
    /\ pc' = "done"
    /\ UNCHANGED <<m, shape, numParts, londeg0, latdeg0, lon0, lat0, segCount,
                   segx, segy, fp, store, total, nshapes, inVerts, crossings, opened,
                   address, offset, num_segments, num_vertices, rpos, opos, osize,
                   head, blocks, err>>

Next ==
    \/ OpenSource
    \/ \E s \in Shapes : ReadShape(s)
    \/ \E p \in Points : Vertex(p[1], p[2])
    \/ CloseSource
    \/ WriteHeader
    \/ OpenCell
    \/ ReadRecord
    \/ FinishCell
    \/ Finish

Spec == Init /\ [][Next]_vars

-----------------------------------------------------------------------------
(***************************************************************************)
(* Definitions used to state the properties.                               *)
(***************************************************************************)

\* The value of the numbits bits of buffer at bit offset start, most
\* significant first.
RECURSIVE BitUnpack(_, _, _)
BitUnpack(buffer, start, numbits) ==
    IF numbits = 0 THEN 0
    ELSE 2 * BitUnpack(buffer, start, numbits - 1) + buffer[start + numbits]

\* The bias added to the stored biases, 2**17 (131071) in the format
\* description.
StoredBias == 131071

\* The vertices k..cnt of a block decoded from bit offset pos on, after the
\* vertices xs, ys.
RECURSIVE DecodeOffsets(_, _, _, _, _, _, _, _, _, _)
DecodeOffsets(buffer, pos, k, cnt, xs, ys, bx, by, lb, tb) ==
    IF k > cnt THEN [count |-> cnt, x |-> xs, y |-> ys]
    ELSE DecodeOffsets(buffer, pos + lb + tb, k + 1, cnt,
                       Append(xs, xs[k - 1] + BitUnpack(buffer, pos, lb) - bx),
                       Append(ys, ys[k - 1] + BitUnpack(buffer, pos + lb, tb) - by),
                       bx, by, lb, tb)

\* A block decoded in the documented field order.
Decode(buffer) ==
    LET cb == BitUnpack(buffer, 0, 5)
        lb == BitUnpack(buffer, 5, 5)
        tb == BitUnpack(buffer, 10, 5)
        cnt == BitUnpack(buffer, 15, cb)
        bx == BitUnpack(buffer, 15 + cb, 18) - StoredBias
        by == BitUnpack(buffer, 33 + cb, 18) - StoredBias
        x0 == BitUnpack(buffer, 51 + cb, 26)
        y0 == BitUnpack(buffer, 77 + cb, 25)
    IN  DecodeOffsets(buffer, 102 + cb, 2, cnt, <<x0>>, <<y0>>, bx, by, lb, tb)

\* The records of a staging file from position pos on: each the sequence
\* of its vertices <<x, y>>.
RECURSIVE ParseRecords(_, _)
ParseRecords(data, pos) ==
    IF pos > Len(data) THEN <<>>
    ELSE <<[k \in 1..data[pos] |-> <<data[pos + 2 * k - 1], data[pos + 2 * k]>>]>>
           \o ParseRecords(data, pos + 1 + 2 * data[pos])

Staged(f) == ParseRecords(store[f], 1)

\* The cell and the integer vertex that the ingester computes for a raw point.
PointCell(p) == CellFile(Trunc(NormLon(p[1]), Micro), Trunc(NormLat(p[2]), Micro))
PointVertex(p) == <<NINT(NormLon(p[1])), NINT(NormLat(p[2]))>>

\* The cell of the raw point that a stored vertex came from (the points of
\* the model have distinct integer vertices).
VertexCell(v) == PointCell(CHOOSE p \in Points : PointVertex(p) = v)

\* The deltas of the values v.
Deltas(v) == {v[k] - v[k - 1] : k \in 2..Len(v)}

\* The blocks of cell file f in the output, as indices of blocks.
BlocksOf(f) == {n \in 1..Len(blocks) : blocks[n].cell = f}

\* The sum of the sequence q of numbers.
RECURSIVE SumSeq(_, _)
SumSeq(q, k) == IF k = 0 THEN 0 ELSE q[k] + SumSeq(q, k - 1)

-----------------------------------------------------------------------------
(***************************************************************************)
(* C1.  Round trip: every block in the output, decoded in the documented   *)
(* field order with the bias and the delta coding undone, gives the count  *)
(* and the integer vertices of the segment it was packed from.             *)
(***************************************************************************)
C1_RoundTrip ==
    \A n \in 1..Len(blocks) :
        LET d == Decode(blocks[n].buffer)
        IN  /\ d.count = Len(blocks[n].segx)
            /\ d.x = blocks[n].segx
            /\ d.y = blocks[n].segy

\* A block of three vertices with a negative and a positive delta is in the
\* output.
C1_Witness ==
    \E n \in 1..Len(blocks) :
        /\ Len(blocks[n].segx) = 3
        /\ \E d \in Deltas(blocks[n].segx) : d < 0
        /\ \E d \in Deltas(blocks[n].segx) : d > 0

(***************************************************************************)
(* C2.  As claimed: every vertex of every record of a staging file lies in *)
(* the cell that the file is keyed by.                                     *)
(***************************************************************************)
C2_AllVerticesInCell ==
    \A f \in DOMAIN store :
        \A n \in 1..Len(Staged(f)) :
            \A k \in 1..Len(Staged(f)[n]) : VertexCell(Staged(f)[n][k]) = f

(***************************************************************************)
(* C2, amended.  Every vertex but the first of every record of a staging   *)
(* file lies in the cell that the file is keyed by; the first vertex lies  *)
(* in that cell or is the point before a cell change, of another cell.     *)
(***************************************************************************)
C2_TailVerticesInCell ==
    \A f \in DOMAIN store :
        \A n \in 1..Len(Staged(f)) :
            \A k \in 2..Len(Staged(f)[n]) : VertexCell(Staged(f)[n][k]) = f

\* A record whose first vertex is of another cell, followed by two vertices
\* of the cell of the file.
C2_Witness ==
    \E f \in DOMAIN store :
        \E n \in 1..Len(Staged(f)) :
            /\ Len(Staged(f)[n]) = 3
            /\ VertexCell(Staged(f)[n][1]) # f

\* The sum of vertexCount over the header entries at the offsets S.
RECURSIVE SumVertexCount(_)
SumVertexCount(S) ==
    IF S = {} THEN 0
    ELSE LET o == CHOOSE q \in S : TRUE
         IN  head[o][3] + SumVertexCount(S \ {o})

\* The number of vertices in the records of the staging files F.
RECURSIVE StagedVertices(_)
StagedVertices(F) ==
    IF F = {} THEN 0
    ELSE LET f == CHOOSE g \in F : TRUE
         IN  SumSeq([n \in 1..Len(Staged(f)) |-> Len(Staged(f)[n])], Len(Staged(f)))
               + StagedVertices(F \ {f})

(***************************************************************************)
(* C3.  As claimed: after a successful run the vertexCount of all header   *)
(* entries sum to the vertices of the input shapes with at least 2         *)
(* vertices plus the number of cell changes inside a segment.              *)
(***************************************************************************)
C3_ConservationOnePerCrossing ==
    pc = "done" => SumVertexCount(DOMAIN head) = inVerts + crossings

(***************************************************************************)
(* C3, amended.  After a successful run the vertexCount of all header      *)
(* entries sum to the vertices of the input shapes with at least 2         *)
(* vertices plus twice the number of cell changes inside a segment (the    *)
(* previous point is added to the closed segment and to the new one), less *)
(* the vertices staged in files that pass 2 never opens (latitude index    *)
(* 180), which are still in the staging store.                             *)
(***************************************************************************)
C3_ConservationTwoPerCrossing ==
    pc = "done" =>
        SumVertexCount(DOMAIN head) =
            inVerts + 2 * crossings - StagedVertices(DOMAIN store)

\* A successful run with a cell change inside a segment, and one with
\* vertices left in the staging store.
C3_Witness ==
    /\ pc = "done"
    /\ crossings >= 1
    /\ SumVertexCount(DOMAIN head) >= 5

(***************************************************************************)
(* C4.  Header density: in a completed output file the header, from the    *)
(* end of the version to the first block, has exactly 64800 entries of 12  *)
(* bytes, every patched entry is one of them, and every entry whose        *)
(* segmentCount is 0 has address 0 and vertexCount 0 (the entries never    *)
(* patched are zero).                                                      *)
(***************************************************************************)
C4_HeaderDensity ==
    pc = "done" =>
        LET headerEnd == IF blocks = <<>> THEN osize ELSE blocks[1].off
        IN  /\ headerEnd - 128 = 64800 * 12
            /\ \A o \in DOMAIN head :
                  /\ o >= 128 /\ o + 12 <= headerEnd /\ (o - 128) % 12 = 0
                  /\ head[o][2] = 0 => (head[o][1] = 0 /\ head[o][3] = 0)

\* A completed output file with a patched entry of a cell whose staging
\* file held an empty record besides a non-empty one.
C4_Witness ==
    /\ pc = "done"
    /\ m = 2
    /\ nshapes = 1
    /\ crossings = 0
    /\ \E o \in DOMAIN head : head[o][2] = 1 /\ head[o][1] # 0

\* The x and the y values of the non-empty record read last from the open
\* staging file (segCount is its count, rpos is past it).
LastX == [k \in 1..segCount |-> store[fp][rpos - 1 - 2 * segCount + 2 * k - 1]]
LastY == [k \in 1..segCount |-> store[fp][rpos - 1 - 2 * segCount + 2 * k]]

\* A non-empty record was read from the open staging file.
RecordRead == pc \in {"records", "aborted"} /\ rpos > 1 /\ segCount > 0

\* The smallest delta of the values v; with no delta the bias is 0 by the
\* convention for a segment of one vertex.
MinDelta(v) == CHOOSE d \in Deltas(v) : \A e \in Deltas(v) : d <= e
BiasByDefinition(v) == IF Len(v) >= 2 THEN -MinDelta(v) ELSE 0

InBiasRange(b) == b >= -131071 /\ b <= 131071

(***************************************************************************)
(* C5.  As claimed: for every segment read back, with bias_x = -minDx and  *)
(* bias_y = -minDy, the run ends with a bias range error if and only if    *)
(* one of the two is outside [-131071, 131071]; otherwise the segment is   *)
(* packed: it is the last block of the output.                             *)
(***************************************************************************)
C5_AbortIffBiasOutOfRange ==
    RecordRead =>
        LET bad == ~InBiasRange(BiasByDefinition(LastX))
                     \/ ~InBiasRange(BiasByDefinition(LastY))
        IN  /\ (pc = "aborted" /\ err \in {"lon bias", "lat bias"}) <=> bad
            /\ ~bad => /\ blocks # <<>>
                       /\ blocks[Len(blocks)].segx = LastX
                       /\ blocks[Len(blocks)].segy = LastY

(***************************************************************************)
(* C6.  As claimed: when the run ends with a bias range error on a segment *)
(* of a cell, no block of that cell is in the output (taken on a segment   *)
(* of at least 2 vertices, whose bias comes from a delta).                 *)
(***************************************************************************)
C6_NoBlockOfCellAtAbort ==
    (pc = "aborted" /\ err \in {"lon bias", "lat bias"} /\ segCount >= 2)
        => BlocksOf(fp) = {}

(***************************************************************************)
(* C6, amended.  When the run ends with a bias range error on a segment of *)
(* a cell, the output holds no block of that segment: it holds the blocks  *)
(* of the non-empty segments of the cell read before it, and only those    *)
(* (none when the segment is the first of the cell), and the header entry  *)
(* of the cell is not patched.                                             *)
(***************************************************************************)
C6_OnlyEarlierBlocksAtAbort ==
    (pc = "aborted" /\ err \in {"lon bias", "lat bias"}) =>
        /\ Cardinality(BlocksOf(fp)) = num_segments - 1
        /\ \A n \in BlocksOf(fp) :
              blocks[n].segx # LastX \/ blocks[n].segy # LastY
        /\ offset \notin DOMAIN head
        /\ osize = IF blocks = <<>> THEN 128 + 64800 * 12
                   ELSE blocks[Len(blocks)].off + blocks[Len(blocks)].size

\* The run ends with a bias range error on the second segment of a cell.
C6_Witness ==
    /\ pc = "aborted"
    /\ err \in {"lon bias", "lat bias"}
    /\ num_segments = 2
    /\ segCount >= 2

(***************************************************************************)
(* C7.  As claimed: every packed segment has all its deltas within         *)
(* [-131071, 131071].                                                      *)
(***************************************************************************)
C7_AllDeltasInRange ==
    \A n \in 1..Len(blocks) :
        \A d \in Deltas(blocks[n].segx) \cup Deltas(blocks[n].segy) :
            d >= -131071 /\ d <= 131071

(***************************************************************************)
(* C7, amended.  A segment of at least 2 vertices whose smallest x delta   *)
(* or smallest y delta is outside [-131071, 131071] ends the run with a    *)
(* range error; every packed segment has at least 2 vertices and its       *)
(* smallest x delta and smallest y delta within [-131071, 131071] (a       *)
(* larger delta above the smallest one is packed).                         *)
(***************************************************************************)
C7_SmallestDeltaInRange ==
    /\ \A n \in 1..Len(blocks) :
          /\ Len(blocks[n].segx) >= 2
          /\ InBiasRange(MinDelta(blocks[n].segx))
          /\ InBiasRange(MinDelta(blocks[n].segy))
    /\ (RecordRead /\ segCount >= 2
          /\ ~(InBiasRange(MinDelta(LastX)) /\ InBiasRange(MinDelta(LastY))))
         => pc = "aborted"

\* A packed segment of 3 vertices with a delta above 131071.
C7_Witness ==
    \E n \in 1..Len(blocks) :
        /\ Len(blocks[n].segx) = 3
        /\ \E d \in Deltas(blocks[n].segx) : d > 131071

\* The place of a cell in the order of the header: by latitude index, then
\* by longitude index.
RowMajor(f) == f[2] * 360 + f[1]

(***************************************************************************)
(* C8.  Blocks are appended in row-major cell order: of two blocks of      *)
(* different cells the one of the cell that comes first (latitude index,   *)
(* then longitude index) lies wholly below the other; blocks do not        *)
(* overlap and the first one is at 128 + 64800 * 12; the address in the    *)
(* patched header entry of a cell is the offset of the first block of the  *)
(* cell, and the entry is at the slot of the cell.                         *)
(***************************************************************************)
C8_RowMajorOrder ==
    /\ \A n1, n2 \in 1..Len(blocks) :
          RowMajor(blocks[n1].cell) < RowMajor(blocks[n2].cell)
             => blocks[n1].off + blocks[n1].size <= blocks[n2].off
    /\ \A n \in 1..Len(blocks) :
          blocks[n].off = IF n = 1 THEN 128 + 64800 * 12
                          ELSE blocks[n - 1].off + blocks[n - 1].size
    /\ \A n \in 1..Len(blocks) :
          LET o == 128 + 12 * RowMajor(blocks[n].cell)
          IN  (o \in DOMAIN head \/ (pc = "done"))
                 => /\ o \in DOMAIN head
                    /\ \A k \in BlocksOf(blocks[n].cell) : head[o][1] <= blocks[k].off
                    /\ \E k \in BlocksOf(blocks[n].cell) : head[o][1] = blocks[k].off

\* A completed output with blocks of two cells, where the cell with the
\* lower longitude index has the higher latitude index.
C8_Witness ==
    /\ pc = "done"
    /\ \E n1, n2 \in 1..Len(blocks) :
          /\ blocks[n1].cell[2] < blocks[n2].cell[2]
          /\ blocks[n1].cell[1] > blocks[n2].cell[1]

\* The raw points of the model have latitude in [-90, 90] and longitude in
\* [-180, 180].
RawInRange(p) ==
    /\ p[1] >= -180 * 1000000 /\ p[1] <= 180 * 1000000
    /\ p[2] >= -90 * 1000000 /\ p[2] <= 90 * 1000000

(***************************************************************************)
(* C9.  As claimed: every vertex of the input, which has latitude in       *)
(* [-90, 90] and longitude in [-180, 180], is staged under a cell with     *)
(* latitude index in [0, 179] and longitude index in [0, 359]: every       *)
(* staging file is one of those that pass 2 opens.                         *)
(***************************************************************************)
C9_CellInGrid ==
    /\ \A p \in Points : RawInRange(p)
    /\ \A f \in DOMAIN store :
          f[1] >= 0 /\ f[1] <= 359 /\ f[2] >= 0 /\ f[2] <= 179

(***************************************************************************)
(* C10.  As claimed: a vertex whose normalized longitude is exactly 360.0  *)
(* is kept with x = 18000000 in cell longitude index 180 and the run goes  *)
(* on, and no vertex kept in the in-progress segment or in the staging     *)
(* store has x = 36000000.                                                 *)
(***************************************************************************)
C10_ClampAndNoX360 ==
    /\ (pc \in {"vertex", "shapes"} /\ segCount >= 1 /\ lon0 = 180 * 1000000)
          => (segx[segCount] = 18000000 /\ londeg0 = 180)
    /\ \A k \in 1..Len(segx) : segx[k] # 36000000
    /\ \A f \in DOMAIN store :
          \A n \in 1..Len(Staged(f)) :
              \A k \in 1..Len(Staged(f)[n]) : Staged(f)[n][k][1] # 36000000

\* The number of bits of a block by the documented layout, from the widths
\* stored in its first three fields and its count.
BlockBits(blk) ==
    LET cb == BitUnpack(blk.buffer, 0, 5)
        lb == BitUnpack(blk.buffer, 5, 5)
        tb == BitUnpack(blk.buffer, 10, 5)
    IN  15 + cb + lb + tb + 18 + 18 + 26 + 25 + (Len(blk.segx) - 1) * (lb + tb)

C13_ShortShapeSkipped ==
    [][/\ (nshapes' # nshapes /\ shape'.nVertices < 2)
            => /\ pc' = "shapes"
               /\ UNCHANGED <<londeg0, latdeg0, lon0, lat0, segCount, segx, segy,
                              fp, store, inVerts, crossings>>
       /\ (pc = "vertex" /\ pc' # "crashed" /\ segCount' # segCount)
            => shape.nVertices >= 2]_vars

\* A shape of fewer than 2 vertices was read while a segment of 2 vertices
\* was in progress.
C13_Witness ==
    /\ pc = "shapes"
    /\ nshapes = 2
    /\ shape.nVertices < 2
    /\ segCount = 2
    /\ fp # "NULL"

\* The cell of the previous point, and the stored vertex of the previous
\* point.
PrevCell == CellFile(Trunc(lon0, Micro), Trunc(lat0, Micro))
PrevVertex == <<NINT(lon0), NINT(lat0)>>

\* The vertices accumulated in the in-progress segment.
Accumulated == [k \in 1..segCount |-> <<segx[k], segy[k]>>]

\* The words of a segment record of the vertices vs.
RecordOf(vs) ==
    Record(Len(vs), [k \in 1..Len(vs) |-> vs[k][1]], [k \in 1..Len(vs) |-> vs[k][2]])

\* This step processes a vertex that is no segment start and that is not
\* the first vertex processed overall.
MidSegmentStep ==
    /\ pc = "vertex"
    /\ ~StartSegment(j, numParts, shape)
    /\ latdeg0 # NoCell

\* The step after which the previous point p and the point v of cell c are
\* the in-progress segment, and the accumulated vertices with p once more
\* were appended to the file of the cell of p.
CrossedTo(c) ==
    /\ PrevCell \in DOMAIN store
    /\ store' = FOpenAppend(
                  [store EXCEPT ![PrevCell] = @ \o RecordOf(Append(Accumulated, PrevVertex))],
                  c)
    /\ fp' = c
    /\ segCount' = 2
    /\ <<segx'[1], segy'[1]>> = PrevVertex
    /\ <<segx'[2], segy'[2]>> = <<NINT(lon0'), NINT(lat0')>>

(***************************************************************************)
(* C14.  As claimed: when a vertex v that is no segment start falls in a   *)
(* cell other than that of the previous vertex p, the vertices accumulated *)
(* so far and one more copy of p are closed as a segment under the cell of *)
(* p, and the new segment, under the cell of v, is p followed by v.        *)
(***************************************************************************)
C14_CrossingDuplicatesPrevious ==
    [][MidSegmentStep =>
          /\ pc' # "crashed"
          /\ \A c \in {CellFile(londeg0', latdeg0')} :
                (c # PrevCell) => CrossedTo(c)]_vars

\* The same for the steps that do not write through a NULL stream.
C14_CrossingUnlessCrashed ==
    [][(MidSegmentStep /\ pc' # "crashed") =>
          \A c \in {CellFile(londeg0', latdeg0')} :
              (c # PrevCell) => CrossedTo(c)]_vars

\* The step after which the in-progress segment, as it was, is appended to
\* the file of the cell of the previous point, and the point processed, of
\* cell c, alone is the in-progress segment, with the file of c open.
StartedIn(c) ==
    /\ PrevCell \in DOMAIN store
    /\ store' = FOpenAppend([store EXCEPT ![PrevCell] = @ \o RecordOf(Accumulated)], c)
    /\ fp' = c
    /\ segCount' = 1
    /\ <<segx'[1], segy'[1]>> = <<NINT(lon0'), NINT(lat0')>>

(***************************************************************************)
(* C15.  As claimed: the first vertex of every processed shape and every   *)
(* vertex at the start index of the next part has start_segment true, and  *)
(* at such a vertex, unless it is the first vertex processed overall, the  *)
(* in-progress segment is closed as it is under the previous cell and the  *)
(* vertex alone is the new segment, under its own cell.                    *)
(***************************************************************************)
C15_StartClosesSegment ==
    [][(pc = "vertex" /\ (j = 0 \/ Ring(j, numParts, shape))) =>
          /\ StartSegment(j, numParts, shape)
          /\ latdeg0 # NoCell =>
                /\ pc' # "crashed"
                /\ StartedIn(CellFile(londeg0', latdeg0'))]_vars

\* The same for the vertices that the code takes as a segment start, at the
\* steps that do not write through a NULL stream.
C15_StartUnlessCrashed ==
    [][(pc = "vertex" /\ StartSegment(j, numParts, shape)
          /\ latdeg0 # NoCell /\ pc' # "crashed") =>
             StartedIn(CellFile(londeg0', latdeg0'))]_vars

\* The step that ends an input source.
EndOfSourceStep == pc = "shapes" /\ pc' \in {"source", "crashed"}

\* The step that processes the first vertex of a source after the first
\* one that had vertices.
FirstOfLaterSourceStep == pc = "vertex" /\ latdeg0 = NewSource

\* The in-progress segment is appended to the open staging file.
Flushed ==
    /\ pc' = "source"
    /\ fp \in DOMAIN store
    /\ store' = [store EXCEPT ![fp] = @ \o RecordOf(Accumulated)]

\* No vertex is staged, and the point processed alone is the in-progress
\* segment, with the file of its cell open.
FreshSegment ==
    /\ pc' # "crashed"
    /\ StagedVertices(DOMAIN store)' = StagedVertices(DOMAIN store)
    /\ fp' = CellFile(londeg0', latdeg0')
    /\ fp' \in DOMAIN store'
    /\ segCount' = 1
    /\ <<segx'[1], segy'[1]>> = <<NINT(lon0'), NINT(lat0')>>

(***************************************************************************)
(* C16.  As claimed: at the end of each input source the in-progress       *)
(* segment is flushed to the staging store, and the first vertex processed *)
(* from the next source begins a new segment: no vertex of the earlier     *)
(* source is staged again or put into the new segment.                     *)
(***************************************************************************)
C16_SourceBoundary ==
    [][/\ EndOfSourceStep => Flushed
       /\ FirstOfLaterSourceStep => FreshSegment]_vars

\* The same for the sources with an open staging file at their end, and
\* for a first vertex that the code takes as a segment start.
C16_SourceBoundaryOfParts ==
    [][/\ (EndOfSourceStep /\ fp # "NULL") => Flushed
       /\ (FirstOfLaterSourceStep /\ StartSegment(j, numParts, shape))
             => FreshSegment]_vars

(***************************************************************************)
(* C17.  As claimed: a segment of exactly one vertex read back from a      *)
(* staging file is packed without a fatal error, with bias_x = bias_y = 0  *)
(* and lon_offset_bits = lat_offset_bits = 1, into a block that ends with  *)
(* the first vertex (no delta fields).                                     *)
(***************************************************************************)
C17_OneVertexSegmentPacked ==
    (RecordRead /\ segCount = 1) =>
        /\ pc # "aborted"
        /\ blocks # <<>>
        /\ LET b == blocks[Len(blocks)]
               cb == BitUnpack(b.buffer, 0, 5)
           IN  /\ b.segx = LastX /\ b.segy = LastY
               /\ BitUnpack(b.buffer, 5, 5) = 1
               /\ BitUnpack(b.buffer, 10, 5) = 1
               /\ BitUnpack(b.buffer, 15 + cb, 18) - StoredBias = 0
               /\ BitUnpack(b.buffer, 33 + cb, 18) - StoredBias = 0
               /\ b.pos = 102 + cb

\* The positions of main in pass 2.
Pass2 == {"cells", "records", "done", "aborted"}

(***************************************************************************)
(* C18.  Pass ordering: a step writes to the output file only when every   *)
(* input source was ingested, flushed and closed (the first write is the   *)
(* one that follows the close of the staging file after the last source);  *)
(* a staging file is read only after that; and once the output file holds  *)
(* a byte no input source is opened and nothing is created in or appended  *)
(* to the staging store.                                                   *)
(***************************************************************************)
C18_PassOrdering ==
    [][/\ (osize' # osize \/ opos' # opos \/ head' # head \/ blocks' # blocks)
            => \/ pc \in {"cells", "records"}
               \/ pc = "source" /\ m >= 1 /\ latdeg0 = NewSource /\ fp' = "NULL"
       /\ rpos' # rpos => (osize > 0 /\ pc \in Pass2)
       /\ osize > 0 =>
             /\ m' = m
             /\ pc' \in Pass2
             /\ \A f \in DOMAIN store' : f \in DOMAIN store /\ store'[f] = store[f]]_vars

\* A run of two input sources ended after its blocks, of two cells, were
\* written.
C18_Witness ==
    /\ pc = "done"
    /\ m = 2
    /\ Cardinality({blocks[n].cell : n \in 1..Len(blocks)}) = 2

(***************************************************************************)
(* C19.  Stream discipline: in every state at most one staging stream is   *)
(* open, and it is the one fp refers to; during ingestion the open stream  *)
(* is the file of the cell of the previous point, which the in-progress    *)
(* segment is bound to (the old stream was closed when the cell changed);  *)
(* during encoding the one stream open while records are read is the file  *)
(* of the cell (i, j), and none is open between two cells or at the end.   *)
(***************************************************************************)
C19_OneStreamOpen ==
    /\ Cardinality(opened) <= 1
    /\ opened = IF fp = "NULL" THEN {} ELSE {fp}
    /\ (pc \in {"source", "shapes", "vertex"} /\ fp # "NULL") => fp = PrevCell
    /\ pc = "records" => opened = {CellFile(j, i)}
    /\ pc \in {"cells", "done"} => opened = {}

\* During ingestion a stream is open that is not the first one opened: the
\* staging store holds the file of another cell.
C19_Witness ==
    /\ pc = "vertex"
    /\ opened # {}
    /\ \E f \in DOMAIN store : f \notin opened

(***************************************************************************)
(* C20.  Index patching: the step that patches the header entry of a cell  *)
(* writes an entry that was not patched before, at offset 128 + 12 *       *)
(* (latIdx * 360 + lonIdx); it changes no other entry, no block and not    *)
(* the length of the file, the 12 bytes lie below every block, and after   *)
(* it the cursor is at the end of the file; when the run is done the entry *)
(* of every cell that has a block was patched.                             *)
(***************************************************************************)
C20_IndexPatch ==
    [][/\ head' # head =>
             /\ fp = CellFile(j, i)
             /\ offset = 128 + 12 * (i * 360 + j)
             /\ offset \notin DOMAIN head
             /\ DOMAIN head' = DOMAIN head \cup {offset}
             /\ \A o \in DOMAIN head : head'[o] = head[o]
             /\ head'[offset][2] = Cardinality(BlocksOf(fp))
             /\ blocks' = blocks
             /\ osize' = osize
             /\ \A n \in 1..Len(blocks) : offset + 12 <= blocks[n].off
             /\ opos' = osize'
       /\ pc' = "done" =>
             \A n \in 1..Len(blocks') :
                 128 + 12 * RowMajor(blocks'[n].cell) \in DOMAIN head']_vars

\* The entries of two cells were patched, the second one after the blocks
\* of the first cell were written, and the cursor is at the end of the file.
C20_Witness ==
    /\ pc = "cells"
    /\ Cardinality(DOMAIN head) = 2
    /\ Cardinality({blocks[n].cell : n \in 1..Len(blocks)}) = 2
    /\ opos = osize

\* A record with at least one vertex.
IsNonEmpty(rec) == Len(rec) > 0

\* The vertices of the blocks of cell file f in the output, in the order
\* of the blocks.
PackedOf(f) ==
    LET OfCell(b) == b.cell = f
        bs == SelectSeq(blocks, OfCell)
    IN  [n \in 1..Len(bs) |->
           [k \in 1..Len(bs[n].segx) |-> <<bs[n].segx[k], bs[n].segy[k]>>]]

\* The step that ends the reading of the staging file of a cell.
CellDrainedStep == pc = "records" /\ pc' = "cells"

(***************************************************************************)
(* C21.  As claimed: the step that ends the drain of a staging file        *)
(* removes it, and the blocks of its cell are then its non-empty records,  *)
(* each packed once; when the run is done no staging file remains.         *)
(***************************************************************************)
C21_StagingLifecycle ==
    [][/\ CellDrainedStep =>
             /\ fp \in DOMAIN store
             /\ fp \notin (DOMAIN store)'
             /\ PackedOf(fp) = SelectSeq(Staged(fp), IsNonEmpty)
       /\ pc' = "done" => (DOMAIN store)' = {}]_vars

\* The same, with only the staging files of latitude index 0..179 and
\* longitude index 0..359 required to be gone when the run is done.
C21_LifecycleInGrid ==
    [][/\ CellDrainedStep =>
             /\ fp \in DOMAIN store
             /\ fp \notin (DOMAIN store)'
             /\ PackedOf(fp) = SelectSeq(Staged(fp), IsNonEmpty)
       /\ pc' = "done" => \A f \in (DOMAIN store)' : CellIndex(f) = -1]_vars

\* The records of the open staging file that were read so far.
RecordsRead == ParseRecords(SubSeq(store[fp], 1, rpos - 1), 1)

(***************************************************************************)
(* C22.  Records of count 0 are skipped on drain: the step that reads one  *)
(* leaves the counts of segments and vertices of the cell and the output   *)
(* file unchanged and goes on with the word after it; and while a staging  *)
(* file is read the blocks of its cell are the non-empty records read so   *)
(* far, in the order in which they were appended.                          *)
(***************************************************************************)
C22_EmptyRecordsSkipped ==
    [][/\ (pc = "records" /\ rpos <= Len(store[fp]) /\ store[fp][rpos] = 0)
            => /\ UNCHANGED <<num_segments, num_vertices, blocks, opos, osize, head>>
               /\ rpos' = rpos + 1
               /\ pc' = "records"
       /\ pc' = "records"
            => (PackedOf(fp) = SelectSeq(RecordsRead, IsNonEmpty))']_vars

\* A staging file was read to its end in which a record of count 0 stands
\* between two non-empty records, both packed.
C22_Witness ==
    /\ pc = "records"
    /\ rpos > Len(store[fp])
    /\ num_segments = 2
    /\ \E n \in 2..(Len(Staged(fp)) - 1) :
          /\ Len(Staged(fp)[n]) = 0
          /\ Len(Staged(fp)[n - 1]) > 0
          /\ Len(Staged(fp)[n + 1]) > 0

\* The biased deltas of the values v: what is packed for vertices 2.. .
BiasedDeltas(v) == {v[k] - v[k - 1] + BiasOf(v) : k \in 2..Len(v)}

(***************************************************************************)
(* C23.  Every value packed into a block fits its field: with the widths   *)
(* computed for the segment (they are what the first three fields of the   *)
(* block hold), count < 2^count_bits, every biased delta is at least 0 and *)
(* less than 2^lon_offset_bits or 2^lat_offset_bits, the range itself is   *)
(* less than that power, both biased biases are in [0, 2^18), the first x  *)
(* is in [0, 2^26), the first y in [0, 2^25), and each width is at most    *)
(* 31.                                                                     *)
(***************************************************************************)
C23_ValuesFitFields ==
    \A n \in 1..Len(blocks) :
        LET xs == blocks[n].segx
            ys == blocks[n].segy
            cb == Width(Len(xs))
            lb == Width(RangeOf(xs))
            tb == Width(RangeOf(ys))
        IN  /\ BitUnpack(blocks[n].buffer, 0, 5) = cb
            /\ BitUnpack(blocks[n].buffer, 5, 5) = lb
            /\ BitUnpack(blocks[n].buffer, 10, 5) = tb
            /\ cb <= 31 /\ lb <= 31 /\ tb <= 31
            /\ Len(xs) < 2 ^ cb
            /\ RangeOf(xs) < 2 ^ lb /\ RangeOf(ys) < 2 ^ tb
            /\ \A d \in BiasedDeltas(xs) : 0 <= d /\ d < 2 ^ lb
            /\ \A d \in BiasedDeltas(ys) : 0 <= d /\ d < 2 ^ tb
            /\ 0 <= BiasOf(xs) + max_bias /\ BiasOf(xs) + max_bias < 2 ^ 18
            /\ 0 <= BiasOf(ys) + max_bias /\ BiasOf(ys) + max_bias < 2 ^ 18
            /\ 0 <= xs[1] /\ xs[1] < 2 ^ 26
            /\ 0 <= ys[1] /\ ys[1] < 2 ^ 25

\* A block of 3 vertices (count_bits is 3, one more than 3 needs) whose
\* largest biased x delta is the range, above 2^19.
C23_Witness ==
    \E n \in 1..Len(blocks) :
        /\ Len(blocks[n].segx) = 3
        /\ RangeOf(blocks[n].segx) \in BiasedDeltas(blocks[n].segx)
        /\ RangeOf(blocks[n].segx) > 2 ^ 19

(***************************************************************************)
(* C24.  As claimed: every write of a segment record to the staging store, *)
(* the flush at the end of a source included, happens while a staging      *)
(* stream is open: no step writes through a NULL stream, every step that   *)
(* appends to a staging file appends to the open one, and the close after  *)
(* the last source closes an open stream.                                  *)
(***************************************************************************)
C24_WritesWithOpenStream ==
    [][/\ pc' # "crashed"
       /\ \A f \in DOMAIN store :
             (f \in (DOMAIN store)' /\ store'[f] # store[f]) => (fp = f /\ f \in opened)
       /\ (pc = "source" /\ pc' = "cells") => fp \in opened]_vars

\* The same for the steps taken while a staging stream is open.
C24_WritesUnlessNull ==
    [][fp # "NULL" =>
          /\ pc' # "crashed"
          /\ \A f \in DOMAIN store :
                (f \in (DOMAIN store)' /\ store'[f] # store[f]) => (fp = f /\ f \in opened)
          /\ (pc = "source" /\ pc' = "cells") => fp \in opened]_vars

\* Staging file f holds a record of at least one vertex.
HasSegment(f) == \E n \in 1..Len(Staged(f)) : Len(Staged(f)[n]) >= 1

\* The header entry of the cell of staging file f was patched with at
\* least one segment and an address that is not 0.
EntryFilled(f) ==
    LET o == 128 + 12 * RowMajor(f)
    IN  o \in DOMAIN head /\ head[o][2] >= 1 /\ head[o][1] # 0

(***************************************************************************)
(* C25.  As claimed: when ingestion has ended every staging file holds a   *)
(* record of at least one vertex, and when the run is done every cell      *)
(* whose staging file existed at the start of pass 2 (the cells of the     *)
(* blocks, and the cells whose file is still there) has a header entry     *)
(* with segmentCount >= 1 and an address that is not 0.                    *)
(***************************************************************************)
C25_EveryStreamHasSegment ==
    /\ (pc \in {"source", "cells"} /\ m >= 1) => \A f \in DOMAIN store : HasSegment(f)
    /\ pc = "done" =>
          /\ \A o \in DOMAIN head : head[o][2] >= 1 /\ head[o][1] # 0
          /\ \A n \in 1..Len(blocks) : EntryFilled(blocks[n].cell)
          /\ \A f \in DOMAIN store : EntryFilled(f)

\* The same, for the cells with latitude index 0..179 and longitude index
\* 0..359.
C25_EveryStreamInGrid ==
    /\ (pc \in {"source", "cells"} /\ m >= 1) => \A f \in DOMAIN store : HasSegment(f)
    /\ pc = "done" =>
          /\ \A o \in DOMAIN head : head[o][2] >= 1 /\ head[o][1] # 0
          /\ \A n \in 1..Len(blocks) : EntryFilled(blocks[n].cell)
          /\ \A f \in DOMAIN store : CellIndex(f) # -1 => EntryFilled(f)


=============================================================================
